---- MODULE Spec2Model ----
(***************************************************************************)
(* A model of the retrieval pipeline of rig-rag-system:                    *)
(*   segmentation (chunking.rs) -> storage (storage.rs) ->                 *)
(*   lexical ranking (search.rs) -> evaluation (evaluation.rs).            *)
(*                                                                         *)
(* Strings are sequences of one-character strings, so that                 *)
(* split_whitespace, join, to_lowercase and contains are computed as the   *)
(* code computes them.  f32 values are exact rationals <<num, den>> with   *)
(* den > 0: every f32 operation of the code is a single division or        *)
(* product of small integers, and IEEE rounding is monotone, so the order  *)
(* facts and the bounds 0 and 1 stated here carry over to f32.             *)
(***************************************************************************)
EXTENDS Integers, Sequences, FiniteSets, TLC

VARIABLES
    \* ChunkingEngine::fixed_size_chunking (one call in progress)
    document, chunk_size, words, chunks, start, pc,
    \* SearchEngine::search (one call: its arguments and its return value)
    query, cand, limit, results, spc,
    \* Evaluator::evaluate (one call: its arguments and its return value)
    ev_results, expected_doc_ids, metrics, epc,
    \* StorageManager: the two maps, the last StorageStats returned, and the
    \* mutating calls made so far (a history variable, read only by properties)
    documents, chunk_map, stats, history,
    \* the Result returned by the last store_document or get_document call
    reply,
    \* callers of the store: for each thread the call it is inside, the steps
    \* of that call still to run and the values its calls returned so far
    threads,
    \* the two Mutexes of StorageManager: the thread holding each, or "free"
    locks

chunkVars == <<document, chunk_size, words, chunks, start, pc>>
searchVars == <<query, cand, limit, results, spc>>
evalVars == <<ev_results, expected_doc_ids, metrics, epc>>
storeVars == <<documents, chunk_map, stats, history, reply>>
concVars == <<threads, locks>>
vars == <<chunkVars, searchVars, evalVars, storeVars, concVars>>

\* no call of the component is in progress
ChunkIdle ==
    /\ document = [id |-> "", content |-> <<>>]
    /\ chunk_size = 0 /\ words = <<>> /\ chunks = <<>> /\ start = 0 /\ pc = "idle"
SearchIdle ==
    /\ query = <<>> /\ cand = <<>> /\ limit = 0 /\ results = <<>> /\ spc = "idle"
EvalIdle ==
    /\ ev_results = <<>> /\ expected_doc_ids = <<>> /\ metrics = "none" /\ epc = "idle"
\* HashMap::new()
EmptyMap == [k \in {} |-> 0]

\* StorageManager::new: two empty maps; no StorageStats returned yet
Threads == {"t1", "t2"}
\* no thread is inside a call
NoCall == [op |-> "none", recv |-> "none", arg |-> <<>>]
IdleThread == [call |-> NoCall, code |-> <<>>, obs |-> <<>>, calls |-> 0]
\* Mutex::new for both maps, and no caller yet
ConcIdle ==
    /\ threads = [t \in Threads |-> IdleThread]
    /\ locks = [docs |-> "free", chunks |-> "free"]
StoreNew ==
    /\ documents = EmptyMap /\ chunk_map = EmptyMap /\ stats = <<>> /\ history = <<>>
    /\ reply = <<>>
    /\ ConcIdle

-----------------------------------------------------------------------------
(* Bounds of the model *)

\* longest document content, in characters, of the segmentation model
MaxLen == 5
\* largest small chunk size tried by the segmentation model
MaxK == 3

-----------------------------------------------------------------------------
(* Strings *)

\* char::is_whitespace, on the characters the model uses
IsWhitespace(c) == c \in {" ", "\n", "\t"}

UpperChars == <<"A","B","C","D","E","F","G","H","I","J","K","L","M",
                "N","O","P","Q","R","S","T","U","V","W","X","Y","Z">>
LowerChars == <<"a","b","c","d","e","f","g","h","i","j","k","l","m",
                "n","o","p","q","r","s","t","u","v","w","x","y","z">>

\* the lowercase of each uppercase letter
LowerMap ==
    [c \in {UpperChars[i] : i \in 1..Len(UpperChars)} |->
        LowerChars[CHOOSE i \in 1..Len(UpperChars) : UpperChars[i] = c]]

\* char lowercase mapping used by str::to_lowercase
LowerChar(c) == IF c \in DOMAIN LowerMap THEN LowerMap[c] ELSE c

\* str::to_lowercase
to_lowercase(s) == [i \in 1..Len(s) |-> LowerChar(s[i])]

\* the words of s[lo..hi] taken as a string of its own.  The words of a
\* concatenation are the words of its halves, the last word of the left half
\* and the first of the right one being one word when no whitespace
\* separates them (the recursion halves the range, so long contents such as
\* a chunk of 200 words stay within the evaluator's stack)
RECURSIVE SplitRange(_, _, _)
SplitRange(s, lo, hi) ==
    IF lo > hi THEN <<>>
    ELSE IF lo = hi THEN (IF IsWhitespace(s[lo]) THEN <<>> ELSE <<(<<s[lo]>>)>>)
    ELSE LET mid == (lo + hi) \div 2
             l == SplitRange(s, lo, mid)
             r == SplitRange(s, mid + 1, hi)
         IN  IF ~IsWhitespace(s[mid]) /\ ~IsWhitespace(s[mid + 1])
             THEN SubSeq(l, 1, Len(l) - 1)
                      \o <<l[Len(l)] \o r[1]>>
                      \o SubSeq(r, 2, Len(r))
             ELSE l \o r

\* str::split_whitespace().collect(): the maximal runs of non-whitespace
split_whitespace(s) == SplitRange(s, 1, Len(s))

RECURSIVE JoinFrom(_, _, _)
JoinFrom(ws, sep, i) ==
    IF i > Len(ws) THEN <<>>
    ELSE IF i = Len(ws) THEN ws[i]
    ELSE ws[i] \o sep \o JoinFrom(ws, sep, i + 1)

\* [&str]::join(sep)
join_bug(ws, sep) == JoinFrom(ws, <<>>, 1)
join(ws, sep) == JoinFrom(ws, sep, 1)

\* str::contains(pat): pat occurs in s as a contiguous substring
contains(s, pat) ==
    \E i \in 0..(Len(s) - Len(pat)) : SubSeq(s, i + 1, i + Len(pat)) = pat

\* stands for one character whose UTF-8 encoding takes two bytes
TwoByteChar == "#"

\* the UTF-8 length of a character of the model
Utf8Len(c) == IF c = TwoByteChar THEN 2 ELSE 1

RECURSIVE ByteLenFrom(_, _)
ByteLenFrom(s, i) == IF i > Len(s) THEN 0 ELSE Utf8Len(s[i]) + ByteLenFrom(s, i + 1)

\* str::len(): the length in bytes
byte_len(s) == ByteLenFrom(s, 1)

\* all strings over alphabet A of length at most n
RECURSIVE StringsUpTo(_, _)
StringsUpTo(A, n) ==
    IF n = 0 THEN {<<>>}
    ELSE LET shorter == StringsUpTo(A, n - 1)
         IN  shorter \cup {Append(s, c) : s \in shorter, c \in A}

MinOf(a, b) == IF a < b THEN a ELSE b

-----------------------------------------------------------------------------
(* chunking.rs *)

\* ChunkingEngine::new: strategy FixedSize { size: 500 }
DefaultChunkSize == 500

\* format!("{}_{}", document.id, n): the pair is as injective as the text,
\* whose suffix after the last '_' is the decimal sequence number
ChunkId(doc_id, n) == <<doc_id, n>>

\* let end = (start + chunk_size).min(words.len());
ChunkEndBug(st, size, n) == MinOf(st + size + 1, n)
ChunkEnd(st, size, n) == MinOf(st + size, n)

\* the DocumentChunk built by one iteration of the loop
MakeChunk(doc, ws, st, size, count) ==
    LET end == ChunkEnd(st, size, Len(ws))
        chunk_words == SubSeq(ws, st + 1, end)
    IN  [id          |-> ChunkId(doc.id, count),
         content     |-> join(chunk_words, <<" ">>),
         start_pos   |-> st,
         end_pos     |-> end,
         word_count  |-> Len(chunk_words),
         document_id |-> doc.id]

\* the whole loop, for a chunk size that lets it end (size > 0)
RECURSIVE FixedSizeLoop(_, _, _, _, _)
FixedSizeLoop(doc, ws, st, size, acc) ==
    IF st < Len(ws)
    THEN LET c == MakeChunk(doc, ws, st, size, Len(acc))
         IN  FixedSizeLoop(doc, ws, c.end_pos, size, Append(acc, c))
    ELSE acc

fixed_size_chunking(doc, size) ==
    FixedSizeLoop(doc, split_whitespace(doc.content), 0, size, <<>>)

\* the characters of the documents of the segmentation model
ChunkAlphabet == {"a", "b", " ", "\n"}

ChunkDocs == StringsUpTo(ChunkAlphabet, MaxLen)

\* a Vec of chunks the allocator can still grow: with chunk_size = 0 and a
\* non-empty document the loop pushes until the allocation fails
MaxChunks == MaxLen + 1

InitChunk ==
    /\ document \in {[id |-> "test", content |-> c] : c \in ChunkDocs}
    /\ chunk_size \in 0..MaxK \cup {DefaultChunkSize}
    /\ words = split_whitespace(document.content)
    /\ chunks = <<>>
    /\ start = 0
    /\ pc = "loop"
    /\ SearchIdle /\ EvalIdle /\ StoreNew

\* one iteration of `while start < words.len()`
FixedSizeStep ==
    /\ pc = "loop"
    /\ start < Len(words)
    /\ Len(chunks) < MaxChunks
    /\ LET c == MakeChunk(document, words, start, chunk_size, Len(chunks))
       IN  /\ chunks' = Append(chunks, c)
           /\ start' = c.end_pos
    /\ UNCHANGED <<document, chunk_size, words, pc>>

\* the loop condition fails: Ok(chunks)
FixedSizeReturn ==
    /\ pc = "loop"
    /\ ~(start < Len(words))
    /\ pc' = "done"
    /\ UNCHANGED <<document, chunk_size, words, chunks, start>>

\* chunks.push cannot grow the Vec any more: the process aborts
FixedSizeExhaust ==
    /\ pc = "loop"
    /\ start < Len(words)
    /\ Len(chunks) >= MaxChunks
    /\ pc' = "abort"
    /\ UNCHANGED <<document, chunk_size, words, chunks, start>>

NextChunk ==
    \/ FixedSizeStep /\ UNCHANGED <<searchVars, evalVars, storeVars, concVars>>
    \/ FixedSizeReturn /\ UNCHANGED <<searchVars, evalVars, storeVars, concVars>>
    \/ FixedSizeExhaust /\ UNCHANGED <<searchVars, evalVars, storeVars, concVars>>

SpecChunk == InitChunk /\ [][NextChunk]_vars

-----------------------------------------------------------------------------
(* C1 *)

RECURSIVE ConcatWords(_, _)
ConcatWords(cs, i) ==
    IF i > Len(cs) THEN <<>>
    ELSE split_whitespace(cs[i].content) \o ConcatWords(cs, i + 1)

\* C1: when fixed_size_chunking returns, the words of its chunks, concatenated
\* in emission order, are the document's whitespace-split words; every chunk
\* but the last has exactly chunk_size words, the last has 1..chunk_size
\* words, and a document without words yields no chunk.
C1_FixedSizePartition ==
    pc = "done" =>
        /\ ConcatWords(chunks, 1) = split_whitespace(document.content)
        /\ \A i \in 1..Len(chunks) :
              LET n == Len(split_whitespace(chunks[i].content))
              IN  IF i < Len(chunks) THEN n = chunk_size
                  ELSE n >= 1 /\ n <= chunk_size
        /\ (split_whitespace(document.content) = <<>> => chunks = <<>>)

\* a returned call with several full chunks and a shorter last one
C1_Witness ==
    /\ pc = "done"
    /\ Len(chunks) >= 2
    /\ chunks[Len(chunks)].word_count < chunk_size
    /\ chunk_size >= 2

-----------------------------------------------------------------------------
(* C14 *)

\* a call that has started keeps running: the loop is ordinary sequential
\* code on a thread that is scheduled until it returns or the process aborts
SpecChunkFair == InitChunk /\ [][NextChunk]_vars /\ WF_vars(NextChunk)

\* C14: for every document and every chunk size, 0 included, the call ends
\* by returning its chunks.
C14_Terminates == <>(pc = "done")

-----------------------------------------------------------------------------
(* f32 values as exact rationals <<numerator, denominator>>, denominator > 0 *)

Rat(n, d) == <<n, d>>
RatMul(a, b) == <<a[1] * b[1], a[2] * b[2]>>
RatAdd(a, b) == <<a[1] * b[2] + b[1] * a[2], a[2] * b[2]>>
\* a / b, for b > 0
RatDiv(a, b) == <<a[1] * b[2], a[2] * b[1]>>
RatEq(a, b) == a[1] * b[2] = b[1] * a[2]
RatLt(a, b) == a[1] * b[2] < b[1] * a[2]
RatLe(a, b) == a[1] * b[2] <= b[1] * a[2]
RatZero == <<0, 1>>
RatOne == <<1, 1>>
InUnitInterval(a) == RatLe(RatZero, a) /\ RatLe(a, RatOne)

-----------------------------------------------------------------------------
(* search.rs *)

\* content_word.contains(query_word) || query_word.contains(content_word)
WordMatches(query_word, content_word) ==
    contains(content_word, query_word) \/ contains(query_word, content_word)

\* the nested loops: the query words that match some content word, once each
CountMatches(query_words, content_words) ==
    Cardinality({i \in 1..Len(query_words) :
        \E j \in 1..Len(content_words) :
            WordMatches(query_words[i], content_words[j])})

\* let length_penalty = if len < 10 { len / 10.0 } else if len > 200 { 200.0 / len } else { 1.0 }
length_penalty_bug(n) ==
    IF n < 10 THEN Rat(n, 10)
    ELSE IF n > 200 THEN Rat(n, 200)
    ELSE RatOne
length_penalty(n) ==
    IF n < 10 THEN Rat(n, 10)
    ELSE IF n > 200 THEN Rat(200, n)
    ELSE RatOne

calculate_similarity(q, content) ==
    LET query_words == split_whitespace(to_lowercase(q))
        content_words == split_whitespace(to_lowercase(content))
    IN  IF query_words = <<>> \/ content_words = <<>>
        THEN RatZero
        ELSE LET matches == CountMatches(query_words, content_words)
                 keyword_score == Rat(matches, Len(query_words))
             IN  RatMul(keyword_score, length_penalty(Len(content_words)))

\* the closure of sort_by: b.score.partial_cmp(&a.score); no score is NaN,
\* so unwrap_or(Equal) never applies
ScoreCmpBug(a, b) ==
    IF RatLt(a.score, b.score) THEN "Less"
    ELSE IF RatLt(b.score, a.score) THEN "Greater"
    ELSE "Equal"
ScoreCmp(a, b) ==
    IF RatLt(b.score, a.score) THEN "Less"
    ELSE IF RatLt(a.score, b.score) THEN "Greater"
    ELSE "Equal"

\* r goes before the first element it is Less than: equal elements keep
\* their order, as slice::sort_by (a stable sort) guarantees
InsertStable(sorted, r) ==
    LET before == {i \in 1..Len(sorted) : ScoreCmp(r, sorted[i]) = "Less"}
        p == IF before = {} THEN Len(sorted) + 1
             ELSE CHOOSE i \in before : \A j \in before : i <= j
    IN  SubSeq(sorted, 1, p - 1) \o <<r>> \o SubSeq(sorted, p, Len(sorted))

RECURSIVE SortFrom(_, _, _)
SortFrom(rs, i, acc) ==
    IF i > Len(rs) THEN acc ELSE SortFrom(rs, i + 1, InsertStable(acc, rs[i]))

\* results.sort_by(..)
sort_by_score(rs) == SortFrom(rs, 1, <<>>)

\* results.truncate(limit)
truncate_bug(rs, n) == rs
truncate(rs, n) == SubSeq(rs, 1, MinOf(n, Len(rs)))

\* for (i, result) in results.iter_mut().enumerate() { result.rank = i + 1; }
update_ranks_bug(rs) == rs
update_ranks(rs) == [i \in 1..Len(rs) |-> [rs[i] EXCEPT !.rank = i]]

\* chunks.iter().enumerate().map(..).collect(): rank is the 0-based index
score_chunks(q, cs) ==
    [i \in 1..Len(cs) |->
        [chunk_id    |-> cs[i].id,
         document_id |-> cs[i].document_id,
         content     |-> cs[i].content,
         score       |-> calculate_similarity(q, cs[i].content),
         rank        |-> i - 1]]

\* SearchEngine::search
search(q, cs, lim) == update_ranks(truncate(sort_by_score(score_chunks(q, cs)), lim))

-----------------------------------------------------------------------------
(* Inputs of the ranking model *)

\* most chunks in one candidate list
MaxCand == 3
\* largest limit tried
MaxLimit == 4

\* the chunks of test_simple_search
Chunk1Text == <<"M","a","c","h","i","n","e"," ","l","e","a","r","n","i","n","g"," ","i","s"," ","a"," ","s","u","b","s","e","t"," ","o","f"," ","a","r","t","i","f","i","c","i","a","l"," ","i","n","t","e","l","l","i","g","e","n","c","e">>
Chunk2Text == <<"N","a","t","u","r","a","l"," ","l","a","n","g","u","a","g","e"," ","p","r","o","c","e","s","s","i","n","g"," ","d","e","a","l","s"," ","w","i","t","h"," ","t","e","x","t"," ","d","a","t","a">>

Queries == {<<"m","a","c","h","i","n","e"," ","l","e","a","r","n","i","n","g">>,
            <<"T","e","x","t"," ","D","A","T","A"," ","a","i">>,
            <<"x","y","z">>,
            <<>>}

\* n copies of word w, separated by single spaces
RepeatWord(w, n) ==
    LET period == Len(w) + 1
    IN  [i \in 1..(n * period - 1) |->
            IF i % period = 0 THEN " " ELSE w[i % period]]

\* contents for candidate lists: with and without words, with equal scores
ShortContents == {<<>>, <<" ", "\n">>, Chunk1Text, Chunk2Text}

\* word counts around the two thresholds of the length penalty
BoundaryCounts == {1, 9, 10, 11, 199, 200, 201}

LongContents == {RepeatWord(<<"a", "i">>, n) : n \in BoundaryCounts}

RECURSIVE ListsUpTo(_, _)
ListsUpTo(S, n) ==
    IF n = 0 THEN {<<>>}
    ELSE LET shorter == ListsUpTo(S, n - 1)
         IN  shorter \cup {Append(l, x) : l \in shorter, x \in S}

\* the DocumentChunk at 0-based position i of a candidate list: distinct
\* ids, as the keys of the store's chunk map are
CandChunk(i, content) ==
    LET n == Len(split_whitespace(content))
    IN  [id          |-> ChunkId("doc1", i),
         content     |-> content,
         start_pos   |-> 0,
         end_pos     |-> n,
         word_count  |-> n,
         document_id |-> "doc1"]

CandList(contents) == [i \in 1..Len(contents) |-> CandChunk(i - 1, contents[i])]

InitSearch ==
    /\ ChunkIdle /\ EvalIdle /\ StoreNew
    /\ query \in Queries
    /\ \/ cand \in {CandList(l) : l \in ListsUpTo(ShortContents, MaxCand)}
       \/ cand \in {CandList(<<c>>) : c \in LongContents}
    /\ limit \in 0..MaxLimit
    /\ results = <<>>
    /\ spc = "call"

\* one call of SearchEngine::search, from its arguments to Ok(results)
Search ==
    /\ spc = "call"
    /\ results' = search(query, cand, limit)
    /\ spc' = "ret"
    /\ UNCHANGED <<query, cand, limit>>

NextSearch == Search /\ UNCHANGED <<chunkVars, evalVars, storeVars, concVars>>

SpecSearch == InitSearch /\ [][NextSearch]_vars

-----------------------------------------------------------------------------
(* Claims about search.rs *)

\* the candidate chunks whose content has at least one word
WordyCount(cs) ==
    Cardinality({i \in 1..Len(cs) : split_whitespace(cs[i].content) # <<>>})

\* C2 as stated: with limit <= number of candidates, search returns
\* min(limit, number of chunks whose content has a word) results.
C2_Original ==
    (spc = "ret" /\ limit <= Len(cand)) =>
        Len(results) = MinOf(limit, WordyCount(cand))

\* C2 amended: with limit <= number of candidates, search returns
\* min(limit, number of candidates) = limit results; a chunk whose content
\* has no word is scored 0 and returned like any other.
C2_TruncatesToLimit ==
    (spc = "ret" /\ limit <= Len(cand)) =>
        /\ Len(results) = MinOf(limit, Len(cand))
        /\ Len(results) = limit

\* a returned call that had to cut the list, and returned a wordless chunk
C2_Witness ==
    /\ spc = "ret"
    /\ limit >= 1
    /\ limit < Len(cand)
    /\ WordyCount(cand) < limit
    /\ \E i \in 1..Len(results) : split_whitespace(results[i].content) = <<>>

\* the length penalty the claim states for n words, where it states one
ClaimedPenalty(n) ==
    IF n < 10 THEN Rat(n, 10)
    ELSE IF n > 200 THEN Rat(200, n)
    ELSE RatOne

\* C5: for a query and a chunk content with at least one word each, the score
\* is in [0,1] and is keyword_score times a length penalty that is exactly 1
\* at 10 and at 200 words, word_count/10 below 10 and 200/word_count above 200.
C5_ScoreBounds ==
    spc = "ret" =>
        \A i \in 1..Len(results) :
            LET qw == split_whitespace(to_lowercase(query))
                cw == split_whitespace(to_lowercase(results[i].content))
                n == Len(cw)
            IN  (qw # <<>> /\ cw # <<>>) =>
                    /\ InUnitInterval(results[i].score)
                    /\ (n = 10 \/ n = 200) => RatEq(length_penalty(n), RatOne)
                    /\ n < 10 => RatEq(length_penalty(n), Rat(n, 10))
                    /\ n > 200 => RatEq(length_penalty(n), Rat(200, n))
                    /\ (n <= 10 \/ n >= 200) =>
                          RatEq(results[i].score,
                                RatMul(Rat(CountMatches(qw, cw), Len(qw)),
                                       ClaimedPenalty(n)))

\* a scored chunk with a matching query word
C5_HasMatch(n) ==
    /\ spc = "ret"
    /\ \E i \in 1..Len(results) :
          /\ Len(split_whitespace(results[i].content)) = n
          /\ RatLt(RatZero, results[i].score)

\* a chunk of exactly 200 words that matches a query word has been scored
C5_Witness == C5_HasMatch(200)

\* the position in the candidate list of the chunk with this id
CandPos(id) == CHOOSE k \in 1..Len(cand) : cand[k].id = id

\* C6: the returned list is ordered by score descending, and results of
\* equal score are in the order of their chunks in the candidate list.
C6_SortedStable ==
    spc = "ret" =>
        \A i, j \in 1..Len(results) :
            i < j =>
                /\ RatLe(results[j].score, results[i].score)
                /\ RatEq(results[i].score, results[j].score) =>
                      CandPos(results[i].chunk_id) < CandPos(results[j].chunk_id)

\* a returned list where the sort moved a later chunk in front of two
\* earlier chunks of equal score
C6_Witness ==
    /\ spc = "ret"
    /\ Len(results) >= 3
    /\ RatLt(results[2].score, results[1].score)
    /\ RatEq(results[2].score, results[3].score)
    /\ CandPos(results[1].chunk_id) > CandPos(results[2].chunk_id)

\* C7: the ranks of the returned list are 1, 2, .., N in list order, N its
\* length; no rank exceeds limit; limit = 0 or no candidate gives no result.
C7_DenseRanks ==
    spc = "ret" =>
        /\ \A i \in 1..Len(results) : results[i].rank = i
        /\ \A i \in 1..Len(results) : results[i].rank <= limit
        /\ (limit = 0 \/ cand = <<>>) => results = <<>>

\* a returned list, cut to limit, led by a chunk that stood beyond limit in
\* the candidate list
C7_Witness ==
    /\ spc = "ret"
    /\ limit >= 1
    /\ Len(results) = limit
    /\ limit < Len(cand)
    /\ CandPos(results[1].chunk_id) > limit

-----------------------------------------------------------------------------
(* evaluation.rs *)

\* a.min(b) on f32
RatMin(a, b) == IF RatLe(a, b) THEN a ELSE b

RECURSIVE SumScores(_, _)
\* results.iter().map(|r| r.score).sum()
SumScores(rs, i) ==
    IF i > Len(rs) THEN RatZero ELSE RatAdd(rs[i].score, SumScores(rs, i + 1))

\* Evaluator::calculate_relevance
calculate_relevance(rs) ==
    IF rs = <<>> THEN RatZero
    ELSE LET total_score == SumScores(rs, 1)
             max_possible_score == Rat(Len(rs), 1)
         IN  IF RatLt(RatZero, max_possible_score)
             THEN RatMin(RatDiv(total_score, max_possible_score), RatOne)
             ELSE RatZero

\* expected_set.contains(&result.document_id)
IsRelevant(r, expected_set) == r.document_id \in expected_set

RECURSIVE RelevantRetrieved(_, _, _)
\* the loop that counts relevant_retrieved
RelevantRetrieved(rs, expected_set, i) ==
    IF i > Len(rs) THEN 0
    ELSE (IF IsRelevant(rs[i], expected_set) THEN 1 ELSE 0)
             + RelevantRetrieved(rs, expected_set, i + 1)

\* Evaluator::calculate_precision_recall: <<precision, recall>>
calculate_precision_recall_bug(rs, expected) ==
    IF expected = <<>> THEN <<RatOne, RatOne>>
    ELSE LET expected_set == {expected[i] : i \in 1..Len(expected)}
             relevant_retrieved == RelevantRetrieved(rs, expected_set, 1)
             precision == IF rs # <<>> THEN Rat(relevant_retrieved, Len(rs))
                          ELSE RatZero
             recall == Rat(relevant_retrieved, Cardinality(expected_set))
         IN  <<precision, recall>>
calculate_precision_recall(rs, expected) ==
    IF expected = <<>> THEN <<RatOne, RatOne>>
    ELSE LET expected_set == {expected[i] : i \in 1..Len(expected)}
             relevant_retrieved == RelevantRetrieved(rs, expected_set, 1)
             precision == IF rs # <<>> THEN Rat(relevant_retrieved, Len(rs))
                          ELSE RatZero
             recall == Rat(relevant_retrieved, Len(expected))
         IN  <<precision, recall>>

ZeroMetrics ==
    [relevance |-> RatZero, precision |-> RatZero,
     recall |-> RatZero, f1_score |-> RatZero]

\* the body of evaluate after the early return
EvaluateNonEmpty(rs, expected) ==
    LET relevance == calculate_relevance(rs)
        pr == calculate_precision_recall(rs, expected)
        precision == pr[1]
        recall == pr[2]
        f1_score == IF RatLt(RatZero, RatAdd(precision, recall))
                    THEN RatDiv(RatMul(Rat(2, 1), RatMul(precision, recall)),
                                RatAdd(precision, recall))
                    ELSE RatZero
    IN  [relevance |-> relevance, precision |-> precision,
         recall |-> recall, f1_score |-> f1_score]

\* Evaluator::evaluate
evaluate_bug(rs, expected) == EvaluateNonEmpty(rs, expected)
evaluate(rs, expected) ==
    IF rs = <<>> THEN ZeroMetrics ELSE EvaluateNonEmpty(rs, expected)

-----------------------------------------------------------------------------
(* Inputs of the evaluation model *)

\* most results in one evaluated list
MaxResults == 3
\* most expected ids in one list
MaxExpected == 2

\* scores that search produces (in [0,1])
EvalScores == {Rat(0, 1), Rat(1, 2), Rat(1, 1)}
EvalDocIds == {"doc1", "doc2"}
ExpectedIds == {"doc1", "doc2", "doc3"}

\* the SearchResult at 0-based position i: chunk i of its document
EvalResult(i, x) ==
    [chunk_id    |-> ChunkId(x[1], i),
     document_id |-> x[1],
     content     |-> <<>>,
     score       |-> x[2],
     rank        |-> i + 1]

EvalResultList(l) == [i \in 1..Len(l) |-> EvalResult(i - 1, l[i])]

InitEval ==
    /\ ChunkIdle /\ SearchIdle /\ StoreNew
    /\ ev_results \in {EvalResultList(l) :
                          l \in ListsUpTo(EvalDocIds \X EvalScores, MaxResults)}
    /\ expected_doc_ids \in ListsUpTo(ExpectedIds, MaxExpected)
    /\ metrics = "none"
    /\ epc = "call"

\* one call of Evaluator::evaluate, from its arguments to Ok(metrics)
Evaluate ==
    /\ epc = "call"
    /\ metrics' = evaluate(ev_results, expected_doc_ids)
    /\ epc' = "ret"
    /\ UNCHANGED <<ev_results, expected_doc_ids>>

NextEval == Evaluate /\ UNCHANGED <<chunkVars, searchVars, storeVars, concVars>>

SpecEval == InitEval /\ [][NextEval]_vars

-----------------------------------------------------------------------------
(* Claims about evaluation.rs *)

\* C3: every metric returned by evaluate is in [0,1], also when several
\* results are chunks of one expected document and when expected ids repeat.
C3_MetricsInUnitInterval ==
    epc = "ret" =>
        /\ InUnitInterval(metrics.relevance)
        /\ InUnitInterval(metrics.precision)
        /\ InUnitInterval(metrics.recall)
        /\ InUnitInterval(metrics.f1_score)

\* C8: evaluate returns four zeros for an empty result list, whatever the
\* expected ids; and precision = recall = 1 for a non-empty result list and
\* an empty expected-id list.
C8_VacuousCases ==
    epc = "ret" =>
        /\ ev_results = <<>> =>
              /\ RatEq(metrics.relevance, RatZero)
              /\ RatEq(metrics.precision, RatZero)
              /\ RatEq(metrics.recall, RatZero)
              /\ RatEq(metrics.f1_score, RatZero)
        /\ (ev_results # <<>> /\ expected_doc_ids = <<>>) =>
              /\ RatEq(metrics.precision, RatOne)
              /\ RatEq(metrics.recall, RatOne)

\* evaluate([], []) has returned
C8_Witness ==
    epc = "ret" /\ ev_results = <<>> /\ expected_doc_ids = <<>>

\* the results whose document_id is one of the expected ids
RelevantCount ==
    Cardinality({i \in 1..Len(ev_results) :
        \E j \in 1..Len(expected_doc_ids) :
            ev_results[i].document_id = expected_doc_ids[j]})

\* C9: for non-empty results and expected ids, precision is the number of
\* results whose document_id is an expected id over the number of results,
\* recall is that number over the number of expected ids; one result whose
\* document is the one expected id gives precision = recall = f1 = 1.
C9_PrecisionRecall ==
    (epc = "ret" /\ ev_results # <<>> /\ expected_doc_ids # <<>>) =>
        /\ RatEq(metrics.precision, Rat(RelevantCount, Len(ev_results)))
        /\ RatEq(metrics.recall, Rat(RelevantCount, Len(expected_doc_ids)))
        /\ (/\ Len(ev_results) = 1
            /\ Len(expected_doc_ids) = 1
            /\ ev_results[1].document_id = expected_doc_ids[1]) =>
              /\ RatEq(metrics.precision, RatOne)
              /\ RatEq(metrics.recall, RatOne)
              /\ RatEq(metrics.f1_score, RatOne)

\* an evaluated list with a relevant and an irrelevant result
C9_Witness ==
    /\ epc = "ret"
    /\ Len(ev_results) >= 2
    /\ Len(expected_doc_ids) >= 2
    /\ RelevantCount >= 1
    /\ RelevantCount < Len(ev_results)

-----------------------------------------------------------------------------
(* storage.rs *)

\* HashMap::insert: insert or overwrite
MapInsert(m, k, v) == [x \in DOMAIN m \cup {k} |-> IF x = k THEN v ELSE m[x]]

\* HashMap::values, as a set
MapValues(m) == {m[k] : k \in DOMAIN m}

\* StorageManager::store_document: the documents map afterwards
store_document_bug(docs, doc) ==
    IF doc.id \in DOMAIN docs THEN docs ELSE MapInsert(docs, doc.id, doc)
store_document(docs, doc) == MapInsert(docs, doc.id, doc)

\* StorageManager::get_document: docs.get(doc_id).cloned(), None as <<>>
\* and Some(d) as <<d>>
get_document(docs, doc_id) ==
    IF doc_id \in DOMAIN docs THEN <<docs[doc_id]>> ELSE <<>>

RECURSIVE InsertChunksFrom(_, _, _)
InsertChunksFrom(cm, cs, i) ==
    IF i > Len(cs) THEN cm
    ELSE InsertChunksFrom(MapInsert(cm, cs[i].id, cs[i]), cs, i + 1)

\* StorageManager::store_chunks: the chunks map afterwards
store_chunks(cm, cs) == InsertChunksFrom(cm, cs, 1)

RECURSIVE SumContentBytes(_, _)
\* values().map(|v| v.content.len()).sum() over the keys ks of map m
SumContentBytes(m, ks) ==
    IF ks = {} THEN 0
    ELSE LET k == CHOOSE x \in ks : TRUE
         IN  byte_len(m[k].content) + SumContentBytes(m, ks \ {k})

\* StorageManager::get_stats
get_stats_bug(docs, cm) ==
    [total_documents  |-> Cardinality(DOMAIN docs),
     total_chunks     |-> Cardinality(DOMAIN cm),
     total_size_bytes |-> SumContentBytes(docs, DOMAIN docs)
                              + SumContentBytes(cm, DOMAIN cm)]
get_stats(docs, cm) ==
    [total_documents  |-> Cardinality(DOMAIN docs),
     total_chunks     |-> Cardinality(DOMAIN cm),
     total_size_bytes |-> SumContentBytes(docs, DOMAIN docs)]

-----------------------------------------------------------------------------
(* Inputs of the storage model *)

\* most mutating calls in one run of the storage model
MaxOps == 3
\* chunk size that produces the chunks stored by the storage model
StoreChunkSize == 1

StoreDocIds == {"d1", "d2"}
StoreContents == {<<"a", " ", "b">>,
                  <<TwoByteChar>>,
                  <<"a", " ", TwoByteChar, "b", " ", "a">>}
StoreDocs == {[id |-> i, content |-> c] : i \in StoreDocIds, c \in StoreContents}

InitStore == ChunkIdle /\ SearchIdle /\ EvalIdle /\ StoreNew

\* StorageManager::store_document
StoreDocument(doc) ==
    /\ Len(history) < MaxOps
    /\ documents' = store_document(documents, doc)
    /\ history' = Append(history, [op |-> "store_document", doc |-> doc])
    /\ stats' = <<>>
    /\ reply' = <<[op |-> "store_document", ok |-> TRUE, value |-> doc.id]>>
    /\ UNCHANGED chunk_map

\* StorageManager::store_chunks
StoreChunks(doc_id, cs) ==
    /\ Len(history) < MaxOps
    /\ chunk_map' = store_chunks(chunk_map, cs)
    /\ history' = Append(history, [op |-> "store_chunks", chunks |-> cs])
    /\ stats' = <<>>
    /\ reply' = <<>>
    /\ UNCHANGED documents

\* StorageManager::clear
Clear ==
    /\ Len(history) < MaxOps
    /\ documents' = EmptyMap
    /\ chunk_map' = EmptyMap
    /\ history' = Append(history, [op |-> "clear"])
    /\ stats' = <<>>
    /\ reply' = <<>>

\* StorageManager::get_stats: Ok(StorageStats)
GetStats ==
    /\ stats' = <<get_stats(documents, chunk_map)>>
    /\ reply' = <<>>
    /\ UNCHANGED <<documents, chunk_map, history>>

\* StorageManager::get_document: Ok(Option<ProcessedDocument>)
GetDocument(doc_id) ==
    /\ reply' = <<[op |-> "get_document", ok |-> TRUE, id |-> doc_id,
                   value |-> get_document(documents, doc_id)]>>
    /\ stats' = <<>>
    /\ UNCHANGED <<documents, chunk_map, history>>

NextStore ==
    \/ \E d \in StoreDocs :
          StoreDocument(d) /\ UNCHANGED <<chunkVars, searchVars, evalVars, concVars>>
    \/ \E d \in StoreDocs :
          /\ StoreChunks(d.id, fixed_size_chunking(d, StoreChunkSize))
          /\ UNCHANGED <<chunkVars, searchVars, evalVars, concVars>>
    \/ Clear /\ UNCHANGED <<chunkVars, searchVars, evalVars, concVars>>
    \/ GetStats /\ UNCHANGED <<chunkVars, searchVars, evalVars, concVars>>
    \/ \E id \in StoreDocIds :
          GetDocument(id) /\ UNCHANGED <<chunkVars, searchVars, evalVars, concVars>>

SpecStore == InitStore /\ [][NextStore]_vars

-----------------------------------------------------------------------------
(* Claims about storage.rs *)

\* the index of the last clear in the history, 0 if there is none
LastClear ==
    LET cl == {i \in 1..Len(history) : history[i].op = "clear"}
    IN  IF cl = {} THEN 0 ELSE CHOOSE i \in cl : \A j \in cl : j <= i

\* the store_document calls since the last clear
LiveDocOps ==
    {i \in (LastClear + 1)..Len(history) : history[i].op = "store_document"}

\* the latest store_document call for each id stored since the last clear
LatestDocOps ==
    {i \in LiveDocOps :
        \A j \in LiveDocOps : history[j].doc.id = history[i].doc.id => j <= i}

\* the chunk ids passed to store_chunks since the last clear
LiveChunkIds ==
    UNION {{history[i].chunks[k].id : k \in 1..Len(history[i].chunks)} :
              i \in {j \in (LastClear + 1)..Len(history) :
                        history[j].op = "store_chunks"}}

RECURSIVE SumLatestBytes(_)
SumLatestBytes(ops) ==
    IF ops = {} THEN 0
    ELSE LET i == CHOOSE x \in ops : TRUE
         IN  byte_len(history[i].doc.content) + SumLatestBytes(ops \ {i})

\* C10: after any sequence of store_document, store_chunks and clear,
\* get_stats returns the number of distinct document ids stored, the number
\* of distinct chunk ids stored, and the sum of the byte lengths of the
\* latest content of each stored document, chunks not counted.
C10_StatsMatchHistory ==
    stats # <<>> =>
        /\ stats[1].total_documents = Cardinality(LatestDocOps)
        /\ stats[1].total_chunks = Cardinality(LiveChunkIds)
        /\ stats[1].total_size_bytes = SumLatestBytes(LatestDocOps)

\* get_stats after a document was overwritten, one more was stored and
\* chunks were stored, with a content longer in bytes than in characters
C10_Witness ==
    /\ stats # <<>>
    /\ stats[1].total_documents = 1
    /\ Cardinality(LiveDocOps) = 2
    /\ stats[1].total_chunks >= 2
    /\ stats[1].total_size_bytes = 7

\* the latest store_document call for this id since the last clear, if any
LatestDocOpFor(id) == {i \in LatestDocOps : history[i].doc.id = id}

\* C11: get_document(id) returns the document most recently passed to
\* store_document under that id since the last clear, and otherwise
\* succeeds with not-found; store_document returns the id of its document.
C11_GetReturnsLatest ==
    reply # <<>> =>
        /\ reply[1].ok
        /\ reply[1].op = "get_document" =>
              IF LatestDocOpFor(reply[1].id) = {}
              THEN reply[1].value = <<>>
              ELSE \A i \in LatestDocOpFor(reply[1].id) :
                      reply[1].value = <<history[i].doc>>
        /\ reply[1].op = "store_document" =>
              reply[1].value = history[Len(history)].doc.id

\* get_document found the second of two documents stored under one id
C11_Witness ==
    /\ reply # <<>>
    /\ reply[1].op = "get_document"
    /\ reply[1].value # <<>>
    /\ \E i, j \in LiveDocOps :
          /\ i < j
          /\ history[i].doc.id = reply[1].id
          /\ history[j].doc.id = reply[1].id
          /\ history[i].doc # history[j].doc

-----------------------------------------------------------------------------
(* lib.rs: SimpleRagSystem, ingestion and query run one at a time *)

\* the first fifteen words of the sentence ingested by
\* test_simple_rag_workflow, closed by a full stop, as one document
MLDoc == <<"M","a","c","h","i","n","e"," ","l","e","a","r","n","i","n","g"," ","i","s"," ","a"," ","s","u","b","s","e","t"," ","o","f"," ","a","r","t","i","f","i","c","i","a","l"," ","i","n","t","e","l","l","i","g","e","n","c","e"," ","t","h","a","t"," ","e","n","a","b","l","e","s"," ","c","o","m","p","u","t","e","r","s"," ","t","o"," ","l","e","a","r","n"," ","f","r","o","m"," ","d","a","t","a",".">>

MLQuery == <<"m","a","c","h","i","n","e"," ","l","e","a","r","n","i","n","g">>

RagContents == {MLDoc, Chunk1Text, Chunk2Text, <<>>}
RagQueries == {MLQuery, <<"T","e","x","t"," ","D","A","T","A"," ","a","i">>}

\* the ids uuid::Uuid::new_v4() may return; it returns no id twice, so a
\* run ingests at most as many documents as there are ids
RagIds == {"u1", "u2"}

\* the limits of the callers: 3 in test_simple_rag_workflow, 5 in
\* evaluate_search
RagLimits == {3, 5}

\* Vec orders in which HashMap::values() may yield the values of m
ValueOrders(m) ==
    {s \in [1..Cardinality(DOMAIN m) -> MapValues(m)] :
        \A i, j \in DOMAIN s : i # j => s[i] # s[j]}

InitRag == ChunkIdle /\ SearchIdle /\ EvalIdle /\ StoreNew

\* SimpleRagSystem::process_document on a file with this content
ProcessDocument(id, content) ==
    LET doc == [id |-> id, content |-> content]
        cs == fixed_size_chunking(doc, DefaultChunkSize)
    IN  /\ id \notin DOMAIN documents
        /\ documents' = store_document(documents, doc)
        /\ chunk_map' = store_chunks(chunk_map, cs)
        /\ history' = history \o <<[op |-> "store_document", doc |-> doc],
                                   [op |-> "store_chunks", chunks |-> cs]>>
        /\ stats' = <<>>
        /\ reply' = <<>>

\* SimpleRagSystem::search
RagSearch(q, lim) ==
    \E all_chunks \in ValueOrders(chunk_map) :
        /\ query' = q
        /\ cand' = all_chunks
        /\ limit' = lim
        /\ results' = search(q, all_chunks, lim)
        /\ spc' = "ret"

NextRag ==
    \/ \E id \in RagIds, content \in RagContents :
          /\ ProcessDocument(id, content)
          /\ UNCHANGED <<chunkVars, searchVars, evalVars, concVars>>
    \/ \E q \in RagQueries, lim \in RagLimits :
          /\ RagSearch(q, lim)
          /\ UNCHANGED <<chunkVars, evalVars, storeVars, concVars>>

SpecRag == InitRag /\ [][NextRag]_vars

-----------------------------------------------------------------------------
(* C4 *)

\* the stored chunks of document id
ChunksOf(id) == {c \in MapValues(chunk_map) : c.document_id = id}

\* the ingested documents whose content is MLDoc
MLDocIds == {id \in DOMAIN documents : documents[id].content = MLDoc}

\* the sentence is stored as one chunk with all its words, and a query for
\* "machine learning" scores that chunk above 0 with both query words matched
C4_OneChunkBothWordsMatch ==
    /\ \A id \in MLDocIds :
          /\ Cardinality(ChunksOf(id)) = 1
          /\ \A c \in ChunksOf(id) :
                split_whitespace(c.content) = split_whitespace(MLDoc)
    /\ (spc = "ret" /\ query = MLQuery) =>
          \A i \in 1..Len(results) :
              results[i].document_id \in MLDocIds =>
                  /\ RatLt(RatZero, results[i].score)
                  /\ CountMatches(split_whitespace(to_lowercase(query)),
                         split_whitespace(to_lowercase(results[i].content))) = 2

\* the length penalty applied to result i
PenaltyOf(i) ==
    length_penalty(Len(split_whitespace(to_lowercase(results[i].content))))

\* C4 as stated: segmented at size 500 the sentence is one chunk with all its
\* words, and the query "machine learning" scores it above 0, both query
\* words matched, with a length penalty strictly below 1.
C4_Original ==
    /\ C4_OneChunkBothWordsMatch
    /\ (spc = "ret" /\ query = MLQuery) =>
          \A i \in 1..Len(results) :
              results[i].document_id \in MLDocIds => RatLt(PenaltyOf(i), RatOne)

\* C4 amended: as stated, but the chunk has 15 words, so its length penalty
\* is exactly 1 and its score is exactly 1.
C4_EndToEnd ==
    /\ C4_OneChunkBothWordsMatch
    /\ (spc = "ret" /\ query = MLQuery) =>
          \A i \in 1..Len(results) :
              results[i].document_id \in MLDocIds =>
                  /\ Len(split_whitespace(results[i].content)) = 15
                  /\ RatEq(PenaltyOf(i), RatOne)
                  /\ RatEq(results[i].score, RatOne)

\* the sentence was ingested with another document and came first in a query
\* for "machine learning"
C4_Witness ==
    /\ spc = "ret"
    /\ query = MLQuery
    /\ Len(results) = 2
    /\ results[1].document_id \in MLDocIds
    /\ results[2].document_id \notin MLDocIds

-----------------------------------------------------------------------------
(* Ingestions of documents whose ids may repeat, run one at a time *)

InitIngest == ChunkIdle /\ SearchIdle /\ EvalIdle /\ StoreNew

\* the body of process_document for an already processed document:
\* chunk_document, store_document, store_chunks
Ingest(doc, size) ==
    LET cs == fixed_size_chunking(doc, size)
    IN  /\ Len(history) < 2 * MaxOps
        /\ documents' = store_document(documents, doc)
        /\ chunk_map' = store_chunks(chunk_map, cs)
        /\ history' = history \o <<[op |-> "store_document", doc |-> doc],
                                   [op |-> "store_chunks", chunks |-> cs]>>
        /\ stats' = <<>>
        /\ reply' = <<[op |-> "store_document", ok |-> TRUE, value |-> doc.id]>>

NextIngest ==
    \E d \in StoreDocs :
        Ingest(d, StoreChunkSize) /\ UNCHANGED <<chunkVars, searchVars, evalVars, concVars>>

SpecIngest == InitIngest /\ [][NextIngest]_vars

\* the elements of a sequence
SeqRange(q) == {q[i] : i \in 1..Len(q)}

\* C15: after any sequence of complete ingestions, the stored chunks of every
\* stored document are exactly the chunks that segmenting the stored
\* document produces, also after an id was ingested again.
C15_ChunksMatchDocuments ==
    \A d \in DOMAIN documents :
        ChunksOf(d) = SeqRange(fixed_size_chunking(documents[d], StoreChunkSize))


-----------------------------------------------------------------------------
(* Callers on several threads. A call of StorageManager runs as a sequence of
   steps: one per lock(), one per map operation, one per MutexGuard dropped
   when the function returns (guards drop in reverse order of declaration). *)

\* calls made by all threads together
MaxCalls == 3

Instr(k, a) == [k |-> k, a |-> a, commit |-> <<>>]
\* the guard drop that ends the mutation of a call; `entry` goes to `history`
Drop(m, entry) == [k |-> "unlock", a |-> m, commit |-> <<entry>>]

\* store_chunks taking the lock anew for every chunk
store_chunks_steps_bug(cs) ==
    IF Len(cs) = 0
    THEN <<Instr("lock", "chunks"),
           Drop("chunks", [op |-> "store_chunks", chunks |-> cs])>>
    ELSE [j \in 1..(3 * Len(cs)) |->
            CASE j % 3 = 1 -> Instr("lock", "chunks")
              [] j % 3 = 2 -> Instr("insert_chunk", cs[(j + 1) \div 3])
              [] j = 3 * Len(cs) ->
                    Drop("chunks", [op |-> "store_chunks", chunks |-> cs])
              [] OTHER -> Instr("unlock", "chunks")]
\* store_chunks: one lock() for the whole `for chunk in chunks` loop
store_chunks_steps(cs) ==
    <<Instr("lock", "chunks")>>
    \o [i \in 1..Len(cs) |-> Instr("insert_chunk", cs[i])]
    \o <<Drop("chunks", [op |-> "store_chunks", chunks |-> cs])>>

store_document_steps(doc) ==
    <<Instr("lock", "docs"), Instr("insert_doc", doc),
      Drop("docs", [op |-> "store_document", doc |-> doc])>>

get_document_steps(doc_id) ==
    <<Instr("lock", "docs"), Instr("read_doc", doc_id), Instr("unlock", "docs")>>

get_all_chunks_steps ==
    <<Instr("lock", "chunks"), Instr("read_chunks", ""), Instr("unlock", "chunks")>>

get_stats_steps ==
    <<Instr("lock", "docs"), Instr("lock", "chunks"), Instr("read_stats", ""),
      Instr("unlock", "chunks"), Instr("unlock", "docs")>>

clear_steps ==
    <<Instr("lock", "docs"), Instr("lock", "chunks"),
      Instr("clear_docs", ""), Instr("clear_chunks", ""),
      Drop("chunks", [op |-> "clear"]), Instr("unlock", "docs")>>

Running(t) == Len(threads[t].code) > 0
Cur(t) == Head(threads[t].code)
At(t, k) == Running(t) /\ Cur(t).k = k

RECURSIVE CallsOf(_)
CallsOf(ts) ==
    IF ts = {} THEN 0
    ELSE LET t == CHOOSE x \in ts : TRUE
         IN  threads[t].calls + CallsOf(ts \ {t})

\* thread t enters a call whose steps are `code`
Begin(t, call, code) ==
    /\ ~Running(t)
    /\ CallsOf(Threads) < MaxCalls
    /\ threads' = [threads EXCEPT ![t] = [call |-> call, code |-> code,
                                          obs |-> @.obs, calls |-> @.calls + 1]]
    /\ UNCHANGED <<locks, storeVars>>

\* thread t has run its current step; `o` holds the value the step read, if any;
\* after the last step the call has returned
After(t, o) ==
    LET rest == Tail(threads[t].code)
    IN  [threads EXCEPT ![t] = [call |-> IF Len(rest) = 0 THEN NoCall ELSE @.call,
                                code |-> rest, obs |-> @.obs \o o,
                                calls |-> @.calls]]

\* Mutex::lock: blocks while another thread holds the guard
LockStep(t) ==
    /\ At(t, "lock")
    /\ locks[Cur(t).a] = "free"
    /\ locks' = [locks EXCEPT ![Cur(t).a] = t]
    /\ threads' = After(t, <<>>)
    /\ UNCHANGED storeVars

\* a MutexGuard is dropped
UnlockStep(t) ==
    /\ At(t, "unlock")
    /\ locks' = [locks EXCEPT ![Cur(t).a] = "free"]
    /\ history' = history \o Cur(t).commit
    /\ threads' = After(t, <<>>)
    /\ UNCHANGED <<documents, chunk_map, stats, reply>>

InsertDocStep(t) ==
    /\ At(t, "insert_doc")
    /\ documents' = MapInsert(documents, Cur(t).a.id, Cur(t).a)
    /\ threads' = After(t, <<>>)
    /\ UNCHANGED <<chunk_map, stats, history, reply, locks>>

InsertChunkStep(t) ==
    /\ At(t, "insert_chunk")
    /\ chunk_map' = MapInsert(chunk_map, Cur(t).a.id, Cur(t).a)
    /\ threads' = After(t, <<>>)
    /\ UNCHANGED <<documents, stats, history, reply, locks>>

ClearDocsStep(t) ==
    /\ At(t, "clear_docs")
    /\ documents' = EmptyMap
    /\ threads' = After(t, <<>>)
    /\ UNCHANGED <<chunk_map, stats, history, reply, locks>>

ClearChunksStep(t) ==
    /\ At(t, "clear_chunks")
    /\ chunk_map' = EmptyMap
    /\ threads' = After(t, <<>>)
    /\ UNCHANGED <<documents, stats, history, reply, locks>>

\* a value read under the guard(s), with the number of mutating calls complete
Observed(op, arg, value) ==
    <<[op |-> op, arg |-> arg, value |-> value, at |-> Len(history)]>>

ReadDocStep(t) ==
    /\ At(t, "read_doc")
    /\ threads' = After(t, Observed("get_document", Cur(t).a,
                                    get_document(documents, Cur(t).a)))
    /\ UNCHANGED <<locks, storeVars>>

ReadChunksStep(t) ==
    /\ At(t, "read_chunks")
    /\ threads' = After(t, Observed("get_all_chunks", "", MapValues(chunk_map)))
    /\ UNCHANGED <<locks, storeVars>>

ReadStatsStep(t) ==
    /\ At(t, "read_stats")
    /\ threads' = After(t, Observed("get_stats", "", get_stats(documents, chunk_map)))
    /\ UNCHANGED <<locks, storeVars>>

ConcDocs == {[id |-> "d1", content |-> <<"a", " ", "b">>],
             [id |-> "d2", content |-> <<TwoByteChar>>]}
IngestChunks(doc) == fixed_size_chunking(doc, StoreChunkSize)

StoreCall(op, recv, arg) == [op |-> op, recv |-> recv, arg |-> arg]

(* The store under its two mutexes alone: threads may enter any call at any
   time and interleave wherever the mutexes let them. The exclusive `&mut self`
   receivers of store_document, store_chunks and clear only remove behaviours
   from this specification. *)
InitLocks == ChunkIdle /\ SearchIdle /\ EvalIdle /\ StoreNew

NextLocks ==
    \E t \in Threads :
        \/ \E d \in ConcDocs :
              Begin(t, StoreCall("store_document", "mut", d), store_document_steps(d))
              /\ UNCHANGED <<chunkVars, searchVars, evalVars>>
        \/ \E d \in ConcDocs :
              Begin(t, StoreCall("store_chunks", "mut", IngestChunks(d)),
                    store_chunks_steps(IngestChunks(d)))
              /\ UNCHANGED <<chunkVars, searchVars, evalVars>>
        \/ Begin(t, StoreCall("clear", "mut", <<>>), clear_steps)
              /\ UNCHANGED <<chunkVars, searchVars, evalVars>>
        \/ \E d \in ConcDocs :
              Begin(t, StoreCall("get_document", "shared", d.id), get_document_steps(d.id))
              /\ UNCHANGED <<chunkVars, searchVars, evalVars>>
        \/ Begin(t, StoreCall("get_all_chunks", "shared", <<>>), get_all_chunks_steps)
              /\ UNCHANGED <<chunkVars, searchVars, evalVars>>
        \/ Begin(t, StoreCall("get_stats", "shared", <<>>), get_stats_steps)
              /\ UNCHANGED <<chunkVars, searchVars, evalVars>>
        \/ LockStep(t) /\ UNCHANGED <<chunkVars, searchVars, evalVars>>
        \/ UnlockStep(t) /\ UNCHANGED <<chunkVars, searchVars, evalVars>>
        \/ InsertDocStep(t) /\ UNCHANGED <<chunkVars, searchVars, evalVars>>
        \/ InsertChunkStep(t) /\ UNCHANGED <<chunkVars, searchVars, evalVars>>
        \/ ClearDocsStep(t) /\ UNCHANGED <<chunkVars, searchVars, evalVars>>
        \/ ClearChunksStep(t) /\ UNCHANGED <<chunkVars, searchVars, evalVars>>
        \/ ReadDocStep(t) /\ UNCHANGED <<chunkVars, searchVars, evalVars>>
        \/ ReadChunksStep(t) /\ UNCHANGED <<chunkVars, searchVars, evalVars>>
        \/ ReadStatsStep(t) /\ UNCHANGED <<chunkVars, searchVars, evalVars>>

SpecLocks == InitLocks /\ [][NextLocks]_vars

\* the two maps after the mutating calls of h, each applied as a whole
RECURSIVE Replay(_)
Replay(h) ==
    IF Len(h) = 0 THEN [docs |-> EmptyMap, chunks |-> EmptyMap]
    ELSE LET s == Replay(SubSeq(h, 1, Len(h) - 1))
             c == h[Len(h)]
         IN  CASE c.op = "store_document" ->
                    [s EXCEPT !.docs = store_document(@, c.doc)]
               [] c.op = "store_chunks" ->
                    [s EXCEPT !.chunks = store_chunks(@, c.chunks)]
               [] c.op = "clear" -> [docs |-> EmptyMap, chunks |-> EmptyMap]

\* what the read call of observation o returns on the maps s
ReadOf(o, s) ==
    CASE o.op = "get_document" -> get_document(s.docs, o.arg)
      [] o.op = "get_all_chunks" -> MapValues(s.chunks)
      [] o.op = "get_stats" -> get_stats(s.docs, s.chunks)

\* C12: under every interleaving the mutexes allow, each call is atomic: every
\* value a get_document, get_all_chunks or get_stats call returned is the value
\* of that call on the maps left by a sequence of whole mutating calls (never
\* part of a store_chunks batch, never a clear that emptied one map only), and
\* a map whose mutex is free is the map left by whole mutating calls.
C12_OperationsAtomic ==
    /\ \A t \in Threads : \A i \in 1..Len(threads[t].obs) :
          LET o == threads[t].obs[i]
          IN  o.value = ReadOf(o, Replay(SubSeq(history, 1, o.at)))
    /\ locks.docs = "free" => documents = Replay(history).docs
    /\ locks.chunks = "free" => chunk_map = Replay(history).chunks

\* one thread stands inside a store_chunks batch of two chunks with one chunk
\* inserted, and another thread inside get_all_chunks or get_stats waits for
\* the chunks mutex
C12_Witness ==
    \E t \in Threads : \E u \in Threads \ {t} :
        /\ threads[t].call.op = "store_chunks"
        /\ Len(threads[t].call.arg) = 2
        /\ At(t, "insert_chunk") /\ Len(threads[t].code) = 2
        /\ locks.chunks = t
        /\ chunk_map # Replay(history).chunks
        /\ threads[u].call.op \in {"get_all_chunks", "get_stats"}
        /\ At(u, "lock") /\ Cur(u).a = "chunks"

-----------------------------------------------------------------------------
(* Callers of SimpleRagSystem on several threads. process_document takes
   `&mut self`, get_document and search take `&self`: a `&mut self` call runs
   only while no other call on the system is in progress, and no call begins
   while it runs. *)

\* the borrow of thread t's call with receiver recv can coexist with the calls
\* of the other threads
BorrowOkBug(t, recv) == TRUE
BorrowOk(t, recv) ==
    \A u \in Threads \ {t} :
        Running(u) => (recv = "shared" /\ threads[u].call.recv = "shared")

\* process_document: store_document, then store_chunks, under one `&mut self`;
\* the document id is a fresh uuid
BeginProcessDocument(t, doc) ==
    /\ doc.id \notin DOMAIN documents
    /\ BorrowOk(t, "mut")
    /\ Begin(t, StoreCall("process_document", "mut", doc),
             store_document_steps(doc) \o store_chunks_steps(IngestChunks(doc)))

BeginGetDocument(t, doc_id) ==
    /\ BorrowOk(t, "shared")
    /\ Begin(t, StoreCall("get_document", "shared", doc_id), get_document_steps(doc_id))

\* search: get_all_chunks, then the ranking of the snapshot
BeginSearch(t) ==
    /\ BorrowOk(t, "shared")
    /\ Begin(t, StoreCall("search", "shared", <<>>), get_all_chunks_steps)

InitBorrow == ChunkIdle /\ SearchIdle /\ EvalIdle /\ StoreNew

NextBorrow ==
    \E t \in Threads :
        \/ \E d \in ConcDocs :
              BeginProcessDocument(t, d) /\ UNCHANGED <<chunkVars, searchVars, evalVars>>
        \/ \E d \in ConcDocs :
              BeginGetDocument(t, d.id) /\ UNCHANGED <<chunkVars, searchVars, evalVars>>
        \/ BeginSearch(t) /\ UNCHANGED <<chunkVars, searchVars, evalVars>>
        \/ LockStep(t) /\ UNCHANGED <<chunkVars, searchVars, evalVars>>
        \/ UnlockStep(t) /\ UNCHANGED <<chunkVars, searchVars, evalVars>>
        \/ InsertDocStep(t) /\ UNCHANGED <<chunkVars, searchVars, evalVars>>
        \/ InsertChunkStep(t) /\ UNCHANGED <<chunkVars, searchVars, evalVars>>
        \/ ReadDocStep(t) /\ UNCHANGED <<chunkVars, searchVars, evalVars>>
        \/ ReadChunksStep(t) /\ UNCHANGED <<chunkVars, searchVars, evalVars>>

SpecBorrow == InitBorrow /\ [][NextBorrow]_vars

\* thread t is inside process_document, store_document has returned and
\* store_chunks has not begun
InGap(t) ==
    /\ threads[t].call.op = "process_document"
    /\ Len(threads[t].code) = Len(store_chunks_steps(IngestChunks(threads[t].call.arg)))

\* C13 as stated: an ingestion between its two calls is open to a concurrent
\* reader: in that state another thread can call get_document or get_all_chunks
\* (and so gets the document and none of its chunks).
C13_Original ==
    \A t \in Threads :
        InGap(t) => \E u \in Threads \ {t} : BorrowOk(u, "shared")

\* C13, amended: between the two calls of one ingestion the document is stored
\* and none of its chunks is, but no other call runs in that state; a reader
\* that got a document from get_document finds all the chunks of that document
\* in every get_all_chunks snapshot it takes afterwards.
C13_GapNotObservable ==
    /\ \A t \in Threads :
          InGap(t) =>
              /\ threads[t].call.arg.id \in DOMAIN documents
              /\ ChunksOf(threads[t].call.arg.id) = {}
              /\ \A u \in Threads \ {t} : ~Running(u)
    /\ \A t \in Threads : \A i, j \in 1..Len(threads[t].obs) :
          (/\ i < j
           /\ threads[t].obs[i].op = "get_document"
           /\ Len(threads[t].obs[i].value) = 1
           /\ threads[t].obs[j].op = "get_all_chunks")
          => SeqRange(IngestChunks(threads[t].obs[i].value[1]))
                 \subseteq threads[t].obs[j].value

\* an ingestion of a document with chunks stands between its two calls, and
\* another thread asked get_document for that id before the ingestion began
C13_Witness ==
    \E t \in Threads : \E u \in Threads \ {t} :
        /\ InGap(t)
        /\ Len(IngestChunks(threads[t].call.arg)) > 0
        /\ \E i \in 1..Len(threads[u].obs) :
              /\ threads[u].obs[i].op = "get_document"
              /\ threads[u].obs[i].arg = threads[t].call.arg.id

====
